---- MODULE Spec2Model ----
(***************************************************************************)
(* Model of github.com/devem-tech/fluent: the chainable Client             *)
(* (client.go) and the Response wrapper (response.go).                     *)
(*                                                                         *)
(* Strings are sequences of one-character strings, so that URL parsing,    *)
(* escaping and query encoding are computed and not assumed.  The inputs   *)
(* are drawn from the characters of Ascii; they contain no '#', no '@',    *)
(* no control bytes and no bytes above 0x7F, so the fragment and userinfo  *)
(* parts of net/url are not modelled.                                      *)
(***************************************************************************)
EXTENDS Integers, Sequences, FiniteSets, TLC

VARIABLES baseURL, params, headers, client, body, r, stream, calls, last

vars == <<baseURL, params, headers, client, body, r, stream, calls, last>>

(***************************************************************************)
(* Bounds of the model.                                                    *)
(***************************************************************************)
MaxParams == 2
MaxHeaders == 2
MaxAccess == 2

(***************************************************************************)
(* Bytes and strings.                                                      *)
(***************************************************************************)
Ascii ==
    "a" :> 97 @@ "b" :> 98 @@ "c" :> 99 @@ "d" :> 100 @@ "e" :> 101 @@ "f" :> 102 @@
    "g" :> 103 @@ "h" :> 104 @@ "i" :> 105 @@ "j" :> 106 @@ "k" :> 107 @@ "l" :> 108 @@
    "m" :> 109 @@ "n" :> 110 @@ "o" :> 111 @@ "p" :> 112 @@ "q" :> 113 @@ "r" :> 114 @@
    "s" :> 115 @@ "t" :> 116 @@ "u" :> 117 @@ "v" :> 118 @@ "w" :> 119 @@ "x" :> 120 @@
    "y" :> 121 @@ "z" :> 122 @@ "A" :> 65 @@ "B" :> 66 @@ "C" :> 67 @@ "D" :> 68 @@
    "E" :> 69 @@ "F" :> 70 @@ "G" :> 71 @@ "H" :> 72 @@ "I" :> 73 @@ "J" :> 74 @@
    "K" :> 75 @@ "L" :> 76 @@ "M" :> 77 @@ "N" :> 78 @@ "O" :> 79 @@ "P" :> 80 @@
    "Q" :> 81 @@ "R" :> 82 @@ "S" :> 83 @@ "T" :> 84 @@ "U" :> 85 @@ "V" :> 86 @@
    "W" :> 87 @@ "X" :> 88 @@ "Y" :> 89 @@ "Z" :> 90 @@ "0" :> 48 @@ "1" :> 49 @@
    "2" :> 50 @@ "3" :> 51 @@ "4" :> 52 @@ "5" :> 53 @@ "6" :> 54 @@ "7" :> 55 @@
    "8" :> 56 @@ "9" :> 57 @@ " " :> 32 @@ "%" :> 37 @@ "&" :> 38 @@ "+" :> 43 @@
    "-" :> 45 @@ "." :> 46 @@ "/" :> 47 @@ ":" :> 58 @@ ";" :> 59 @@ "=" :> 61 @@
    "?" :> 63 @@ "_" :> 95 @@ "{" :> 123 @@ "}" :> 125 @@ "~" :> 126

UpperHex == <<"0", "1", "2", "3", "4", "5", "6", "7", "8", "9", "A", "B", "C", "D", "E", "F">>

IsLetter(c) == (Ascii[c] >= 97 /\ Ascii[c] <= 122) \/ (Ascii[c] >= 65 /\ Ascii[c] <= 90)

IsDigit(c) == Ascii[c] >= 48 /\ Ascii[c] <= 57

IsHex(c) == IsDigit(c) \/ (Ascii[c] >= 97 /\ Ascii[c] <= 102) \/ (Ascii[c] >= 65 /\ Ascii[c] <= 70)

\* unhex of net/url: the value of one hexadecimal digit.
Unhex(c) ==
    IF IsDigit(c) THEN Ascii[c] - 48
    ELSE IF Ascii[c] >= 97 THEN Ascii[c] - 97 + 10
    ELSE Ascii[c] - 65 + 10

\* The character of a byte value (the byte itself, as a number, when the
\* value is not a character of Ascii).
Chr(n) == IF \E c \in DOMAIN Ascii : Ascii[c] = n
          THEN CHOOSE c \in DOMAIN Ascii : Ascii[c] = n
          ELSE n

\* strings.ToLower on one byte.
ToLower(c) == IF Ascii[c] >= 65 /\ Ascii[c] <= 90 THEN Chr(Ascii[c] + 32) ELSE c

\* strings.Index for a one-byte separator: 0 when absent.
Index(s, c) ==
    IF \E i \in 1..Len(s) : s[i] = c
    THEN CHOOSE i \in 1..Len(s) : s[i] = c /\ \A j \in 1..(i - 1) : s[j] # c
    ELSE 0

Contains(s, c) == \E i \in 1..Len(s) : s[i] = c

Count(s, c) == Cardinality({i \in 1..Len(s) : s[i] = c})

\* strings.Cut for a one-byte separator.
Cut(s, c) ==
    LET i == Index(s, c)
    IN  IF i = 0
        THEN [before |-> s, after |-> <<>>, found |-> FALSE]
        ELSE [before |-> SubSeq(s, 1, i - 1), after |-> SubSeq(s, i + 1, Len(s)), found |-> TRUE]

HasPrefix(s, p) == Len(s) >= Len(p) /\ SubSeq(s, 1, Len(p)) = p

HasSuffix(s, p) == Len(s) >= Len(p) /\ SubSeq(s, Len(s) - Len(p) + 1, Len(s)) = p

\* strings.TrimPrefix / strings.TrimSuffix: at most one occurrence is removed.
TrimPrefix(s, p) == IF HasPrefix(s, p) THEN SubSeq(s, Len(p) + 1, Len(s)) ELSE s

TrimSuffix(s, p) == IF HasSuffix(s, p) THEN SubSeq(s, 1, Len(s) - Len(p)) ELSE s

\* Byte-wise lexicographic order of strings (sort.Strings).
RECURSIVE StrLess(_, _)
StrLess(a, b) ==
    IF a = <<>> THEN b # <<>>
    ELSE IF b = <<>> THEN FALSE
    ELSE IF Ascii[Head(a)] # Ascii[Head(b)] THEN Ascii[Head(a)] < Ascii[Head(b)]
    ELSE StrLess(Tail(a), Tail(b))

RECURSIVE SortStrings(_)
SortStrings(S) ==
    IF S = {} THEN <<>>
    ELSE LET m == CHOOSE x \in S : \A y \in S \ {x} : StrLess(x, y)
         IN  <<m>> \o SortStrings(S \ {m})

(***************************************************************************)
(* net/url escaping.                                                       *)
(***************************************************************************)
\* shouldEscape of net/url for the modes the client reaches
\* ("path", "query", "host").
shouldEscape(c, mode) ==
    IF IsLetter(c) \/ IsDigit(c) THEN FALSE
    ELSE IF mode = "host" /\ c \in {"&", "+", ";", "=", ":"} THEN FALSE
    ELSE IF c \in {"-", "_", ".", "~"} THEN FALSE
    ELSE IF c \in {"&", "+", "/", ":", ";", "=", "?"}
         THEN IF mode = "path" THEN c = "?" ELSE TRUE
    ELSE TRUE

RECURSIVE escape(_, _)
escape(s, mode) ==
    IF s = <<>> THEN <<>>
    ELSE LET c == Head(s)
             e == IF c = " " /\ mode = "query" THEN <<"+">>
                  ELSE IF shouldEscape(c, mode)
                       THEN <<"%", UpperHex[(Ascii[c] \div 16) + 1], UpperHex[(Ascii[c] % 16) + 1]>>
                  ELSE <<c>>
         IN  e \o escape(Tail(s), mode)

\* unescape of net/url: [ok, val]; a '%' not followed by two hexadecimal
\* digits is an EscapeError, and so is, in a host, an escape of an ASCII
\* byte other than %25; a host byte that would need escaping is an
\* InvalidHostError.
RECURSIVE unescape(_, _)
unescape(s, mode) ==
    IF s = <<>> THEN [ok |-> TRUE, val |-> <<>>]
    ELSE IF Head(s) = "%"
         THEN IF Len(s) < 3 \/ ~IsHex(s[2]) \/ ~IsHex(s[3])
              THEN [ok |-> FALSE, val |-> <<>>]
              ELSE IF mode = "host" /\ Unhex(s[2]) < 8 /\ SubSeq(s, 1, 3) # <<"%", "2", "5">>
              THEN [ok |-> FALSE, val |-> <<>>]
              ELSE LET rest == unescape(SubSeq(s, 4, Len(s)), mode)
                   IN  IF rest.ok
                       THEN [ok |-> TRUE,
                             val |-> <<Chr(Unhex(s[2]) * 16 + Unhex(s[3]))>> \o rest.val]
                       ELSE rest
    ELSE IF mode = "host" /\ shouldEscape(Head(s), "host")
         THEN [ok |-> FALSE, val |-> <<>>]
    ELSE LET rest == unescape(Tail(s), mode)
             c == IF Head(s) = "+" /\ mode = "query" THEN " " ELSE Head(s)
         IN  IF rest.ok THEN [ok |-> TRUE, val |-> <<c>> \o rest.val] ELSE rest

QueryEscape(s) == escape(s, "query")

QueryUnescape(s) == unescape(s, "query")

(***************************************************************************)
(* net/url: URL, Parse and String.                                         *)
(***************************************************************************)
\* getScheme of net/url: [ok, scheme, rest].
RECURSIVE getSchemeAt(_, _)
getSchemeAt(rawURL, i) ==
    IF i > Len(rawURL) THEN [ok |-> TRUE, scheme |-> <<>>, rest |-> rawURL]
    ELSE LET c == rawURL[i]
         IN  IF IsLetter(c) THEN getSchemeAt(rawURL, i + 1)
             ELSE IF IsDigit(c) \/ c \in {"+", "-", "."}
                  THEN IF i = 1 THEN [ok |-> TRUE, scheme |-> <<>>, rest |-> rawURL]
                       ELSE getSchemeAt(rawURL, i + 1)
             ELSE IF c = ":"
                  THEN IF i = 1 THEN [ok |-> FALSE, scheme |-> <<>>, rest |-> <<>>]
                       ELSE [ok |-> TRUE, scheme |-> SubSeq(rawURL, 1, i - 1),
                             rest |-> SubSeq(rawURL, i + 1, Len(rawURL))]
             ELSE [ok |-> TRUE, scheme |-> <<>>, rest |-> rawURL]

getScheme(rawURL) == getSchemeAt(rawURL, 1)

\* validOptionalPort of net/url: "" or ":" followed by digits only.
validOptionalPort(port) ==
    port = <<>> \/ (Head(port) = ":" /\ \A i \in 2..Len(port) : IsDigit(port[i]))

\* parseHost of net/url (no "[" in the inputs): [ok, val].
parseHost(host) ==
    LET colons == {i \in 1..Len(host) : host[i] = ":"}
        lastColon == IF colons = {} THEN 0
                     ELSE CHOOSE i \in colons : \A j \in colons : j <= i
    IN  IF lastColon # 0 /\ ~validOptionalPort(SubSeq(host, lastColon, Len(host)))
        THEN [ok |-> FALSE, val |-> <<>>]
        ELSE unescape(host, "host")

EmptyURL ==
    [Scheme |-> <<>>, Opaque |-> <<>>, Host |-> <<>>, Path |-> <<>>, RawPath |-> <<>>,
     OmitHost |-> FALSE, ForceQuery |-> FALSE, RawQuery |-> <<>>]

\* (*URL).setPath: [ok, u].
setPath(u, p) ==
    LET path == unescape(p, "path")
    IN  IF ~path.ok THEN [ok |-> FALSE, u |-> EmptyURL]
        ELSE [ok |-> TRUE,
              u |-> [u EXCEPT !.Path = path.val,
                              !.RawPath = IF p = escape(path.val, "path") THEN <<>> ELSE p]]

\* What url.Parse returns with an error.
ParseError == [ok |-> FALSE, u |-> EmptyURL]

\* parse of net/url, from the authority on: the host is parsed, and the
\* path is what follows the authority.
parseAuthority(u, authority, rest) ==
    IF ~parseHost(authority).ok THEN ParseError
    ELSE setPath([u EXCEPT !.Host = parseHost(authority).val], rest)

\* parse of net/url, after the scheme and the query have been split off:
\* an opaque URL, a first path segment holding a colon, an authority, or a
\* path alone.
parseRest(u, rest) ==
    IF ~HasPrefix(rest, <<"/">>) /\ u.Scheme # <<>>
    THEN [ok |-> TRUE, u |-> [u EXCEPT !.Opaque = rest]]
    ELSE IF ~HasPrefix(rest, <<"/">>) /\ Contains(Cut(rest, "/").before, ":")
    THEN ParseError
    ELSE IF (u.Scheme # <<>> \/ ~HasPrefix(rest, <<"/", "/", "/">>))
            /\ HasPrefix(rest, <<"/", "/">>)
    THEN parseAuthority(u, Cut(SubSeq(rest, 3, Len(rest)), "/").before,
                        SubSeq(rest, 3 + Len(Cut(SubSeq(rest, 3, Len(rest)), "/").before),
                               Len(rest)))
    ELSE setPath([u EXCEPT !.OmitHost = u.Scheme # <<>> /\ HasPrefix(rest, <<"/">>)], rest)

\* parse of net/url, after getScheme: a lone trailing '?' forces an empty
\* query, otherwise the query is what follows the first '?'.
parseQuery(scheme, rest) ==
    IF HasSuffix(rest, <<"?">>) /\ Count(rest, "?") = 1
    THEN parseRest([EmptyURL EXCEPT !.Scheme = scheme, !.ForceQuery = TRUE],
                   SubSeq(rest, 1, Len(rest) - 1))
    ELSE parseRest([EmptyURL EXCEPT !.Scheme = scheme, !.RawQuery = Cut(rest, "?").after],
                   Cut(rest, "?").before)

\* parse of net/url (viaRequest = false), given what getScheme returned.
parse(sch) ==
    IF ~sch.ok THEN ParseError
    ELSE parseQuery([i \in 1..Len(sch.scheme) |-> ToLower(sch.scheme[i])], sch.rest)

\* url.Parse: [ok, u].
Parse(rawURL) == parse(getScheme(rawURL))

\* validEncoded of net/url in path mode.
validEncoded(s) ==
    \A i \in 1..Len(s) :
        s[i] \in {"&", "+", ";", "=", ":", "%"} \/ ~shouldEscape(s[i], "path")

\* (*URL).EscapedPath.
EscapedPath(u) ==
    IF u.RawPath # <<>> /\ validEncoded(u.RawPath)
       /\ unescape(u.RawPath, "path") = [ok |-> TRUE, val |-> u.Path]
    THEN u.RawPath
    ELSE escape(u.Path, "path")

\* (*URL).String, the scheme: "scheme:".
SchemePart(u) == IF u.Scheme # <<>> THEN u.Scheme \o <<":">> ELSE <<>>

\* (*URL).String, the authority: "//host", left out for a URL without
\* scheme and host and for one that omits its empty host.
AuthorityPart(u) ==
    IF (u.Scheme # <<>> \/ u.Host # <<>>) /\ ~(u.OmitHost /\ u.Host = <<>>)
    THEN (IF u.Host # <<>> \/ u.Path # <<>> THEN <<"/", "/">> ELSE <<>>)
         \o escape(u.Host, "host")
    ELSE <<>>

\* (*URL).String, the path after what has been written so far: a '/' is
\* put before a relative path that follows a host, and "./" before a first
\* segment holding a colon when nothing has been written.
PathPart(u, written, path) ==
    IF path # <<>> /\ Head(path) # "/" /\ u.Host # <<>> THEN written \o <<"/">> \o path
    ELSE IF written = <<>> /\ Contains(Cut(path, "/").before, ":")
    THEN <<".", "/">> \o path
    ELSE written \o path

\* (*URL).String, the query: "?query".
QueryPart(u) ==
    IF u.ForceQuery \/ u.RawQuery # <<>> THEN <<"?">> \o u.RawQuery ELSE <<>>

\* (*URL).String.
String(u) ==
    (IF u.Opaque # <<>> THEN SchemePart(u) \o u.Opaque
     ELSE PathPart(u, SchemePart(u) \o AuthorityPart(u), EscapedPath(u)))
    \o QueryPart(u)

(***************************************************************************)
(* url.Values and http.Header: a map from a key to the list of its values. *)
(***************************************************************************)
EmptyValues == [k \in {} |-> <<>>]

\* Values.Add / the append of Header.Add.
Add(v, key, value) ==
    IF key \in DOMAIN v THEN [v EXCEPT ![key] = Append(@, value)]
    ELSE v @@ (key :> <<value>>)

\* The number of values a map holds.
RECURSIVE Size(_)
Size(v) ==
    IF DOMAIN v = {} THEN 0
    ELSE LET k == CHOOSE k \in DOMAIN v : TRUE
         IN  Len(v[k]) + Size([j \in DOMAIN v \ {k} |-> v[j]])

\* The pairs url.ParseQuery accepts, in the order of the query string: a
\* pair holding ';' or a bad escape is skipped, and so is an empty one.
RECURSIVE QueryPairs(_)
QueryPairs(query) ==
    IF query = <<>> THEN <<>>
    ELSE LET c == Cut(query, "&")
             kv == Cut(c.before, "=")
             key == QueryUnescape(kv.before)
             value == QueryUnescape(kv.after)
         IN  IF Contains(c.before, ";") \/ c.before = <<>> \/ ~key.ok \/ ~value.ok
             THEN QueryPairs(c.after)
             ELSE <<[k |-> key.val, v |-> value.val]>> \o QueryPairs(c.after)

RECURSIVE AddAll(_, _)
AddAll(v, pairs) ==
    IF pairs = <<>> THEN v
    ELSE AddAll(Add(v, Head(pairs).k, Head(pairs).v), Tail(pairs))

\* (*URL).Query: url.ParseQuery(u.RawQuery) with its error dropped.
URLQuery(u) == AddAll(EmptyValues, QueryPairs(u.RawQuery))

RECURSIVE EncodeKey(_, _)
EncodeKey(key, vals) ==
    IF vals = <<>> THEN <<>>
    ELSE <<QueryEscape(key) \o <<"=">> \o QueryEscape(Head(vals))>> \o EncodeKey(key, Tail(vals))

RECURSIVE EncodeKeys(_, _)
EncodeKeys(v, keys) ==
    IF keys = <<>> THEN <<>>
    ELSE EncodeKey(Head(keys), v[Head(keys)]) \o EncodeKeys(v, Tail(keys))

RECURSIVE Join(_, _)
Join(parts, sep) ==
    IF parts = <<>> THEN <<>>
    ELSE IF Len(parts) = 1 THEN Head(parts)
    ELSE Head(parts) \o sep \o Join(Tail(parts), sep)

\* Values.Encode: "k=v" pairs joined by '&', the keys sorted.
Encode(v) == Join(EncodeKeys(v, SortStrings(DOMAIN v)), <<"&">>)

(***************************************************************************)
(* Client.fullURL.                                                         *)
(***************************************************************************)
NoError == [kind |-> "nil"]

\* fmt.Errorf("...: %w", err) around the *url.Error of url.Parse.
InvalidURL(raw) == [kind |-> "invalid URL", wraps |-> [kind |-> "url.Error", URL |-> raw]]

InvalidBaseURL(raw) == [kind |-> "invalid baseURL", wraps |-> [kind |-> "url.Error", URL |-> raw]]

\* The loop q.Add(k, v) over c.params: every value of every key, the values
\* of one key in their order.
RECURSIVE AddValues(_, _, _)
AddValues(q, key, vals) ==
    IF vals = <<>> THEN q ELSE AddValues(Add(q, key, Head(vals)), key, Tail(vals))

RECURSIVE AddParams(_, _)
AddParams(q, ps) ==
    IF DOMAIN ps = {} THEN q
    ELSE LET k == CHOOSE k \in DOMAIN ps : TRUE
         IN  AddParams(AddValues(q, k, ps[k]), [j \in DOMAIN ps \ {k} |-> ps[j]])

\* fullURLOfPath with the query of the path overwritten by the parameters
\* of the client, as the branch for a base URL does.
fullURLOfPath_DropsPathQuery(c, path, p) ==
    IF ~p.ok THEN [url |-> <<>>, err |-> InvalidURL(path)]
    ELSE [url |-> String([p.u EXCEPT !.RawQuery = Encode(c.params)]), err |-> NoError]

\* fullURL without a base URL, given url.Parse(path): the parameters of the
\* client are added to those of the path and the query is encoded anew.
fullURLOfPath(c, path, p) ==
    IF ~p.ok THEN [url |-> <<>>, err |-> InvalidURL(path)]
    ELSE [url |-> String([p.u EXCEPT !.RawQuery = Encode(AddParams(URLQuery(p.u), c.params))]),
          err |-> NoError]

\* fullURL with a base URL, given url.Parse(c.baseURL): the path is joined
\* to the path of the base and the query is the parameters of the client.
fullURLOfBase(c, path, p) ==
    IF ~p.ok THEN [url |-> <<>>, err |-> InvalidBaseURL(c.baseURL)]
    ELSE [url |-> String([p.u EXCEPT
                     !.Path = TrimSuffix(p.u.Path, <<"/">>) \o <<"/">>
                              \o TrimPrefix(path, <<"/">>),
                     !.RawQuery = Encode(c.params)]),
          err |-> NoError]

\* fullURL of a client c (its baseURL and params) and a path: [url, err].
fullURL(c, path) ==
    IF c.baseURL = <<>> THEN fullURLOfPath(c, path, Parse(path))
    ELSE fullURLOfBase(c, path, Parse(c.baseURL))

(***************************************************************************)
(* Values of the program: errors, byte slices, streams, responses.         *)
(***************************************************************************)
\* var ErrNotOK = errors.New("invalid status code")
ErrNotOK == [kind |-> "invalid status code"]

\* (*HTTPError).Unwrap, and the %w of fmt.Errorf.
Unwrap(err) ==
    IF err.kind = "HTTPError" THEN ErrNotOK
    ELSE IF "wraps" \in DOMAIN err THEN err.wraps
    ELSE NoError

\* errors.Is: err or an error of its chain is the target.
RECURSIVE ErrorsIs(_, _)
ErrorsIs(err, target) ==
    IF err = NoError THEN FALSE
    ELSE IF err = target THEN TRUE
    ELSE ErrorsIs(Unwrap(err), target)

\* A []byte: nil, or a slice (possibly empty).
NilBytes == [isNil |-> TRUE, b |-> <<>>]

Bytes(b) == [isNil |-> FALSE, b |-> b]

\* The body stream of the response the transport returned last: its bytes,
\* the offset at which reading it fails (NoFail: it does not), whether it
\* has been read, and how often it has been closed.
NoFail == 0 - 1

NoStream == [opened |-> FALSE, data |-> <<>>, failAt |-> NoFail, consumed |-> FALSE, closes |-> 0]

NewStream(data, failAt) ==
    [opened |-> TRUE, data |-> data, failAt |-> failAt, consumed |-> FALSE, closes |-> 0]

\* resp.Body.Close()
Close(s) == [s EXCEPT !.closes = @ + 1]

\* The stream once a reader has drained it (or failed in it).
Drain(s) == IF s.closes > 0 THEN s ELSE [s EXCEPT !.consumed = TRUE]

\* io.ReadAll: the bytes read so far and the error that stopped the read;
\* the slice it returns is never nil.
ReadAll(s) ==
    IF s.closes > 0 THEN [data |-> Bytes(<<>>), err |-> [kind |-> "read on closed response body"]]
    ELSE IF s.consumed THEN [data |-> Bytes(<<>>), err |-> NoError]
    ELSE IF s.failAt # NoFail
         THEN [data |-> Bytes(SubSeq(s.data, 1, s.failAt)), err |-> [kind |-> "read error"]]
    ELSE [data |-> Bytes(s.data), err |-> NoError]

\* json.Marshal of the values a caller passes to Body: a channel has no
\* JSON encoding.
Marshal(v) ==
    CASE v = "struct{}{}" -> [ok |-> TRUE, b |-> <<"{", "}">>]
      [] v = "true" -> [ok |-> TRUE, b |-> <<"t", "r", "u", "e">>]
      [] OTHER -> [ok |-> FALSE, b |-> <<>>]

\* The zero value of the T of Into[T] (T is `any` here).
ZeroT == "nil"

\* json.NewDecoder(body).Decode(&res) on the stream: [val, err].
Decode(s) ==
    LET read == ReadAll(s)
    IN  IF read.err # NoError THEN [val |-> ZeroT, err |-> read.err]
        ELSE IF read.data.b = <<>> THEN [val |-> ZeroT, err |-> [kind |-> "EOF"]]
        ELSE IF read.data.b = <<"{", "}">> THEN [val |-> "map[]", err |-> NoError]
        ELSE IF read.data.b = <<"t", "r", "u", "e">> THEN [val |-> "true", err |-> NoError]
        ELSE [val |-> ZeroT, err |-> [kind |-> "json.SyntaxError"]]

\* http.StatusText, as the Status line of a response.
StatusText(code) ==
    CASE code = 200 -> "200 OK"
      [] code = 201 -> "201 Created"
      [] code = 300 -> "300 Multiple Choices"
      [] code = 404 -> "404 Not Found"
      [] code = 500 -> "500 Internal Server Error"
      [] OTHER -> "unknown status"

NilResponse == [kind |-> "nil"]

\* A *Response; NoResponse before the first execution.
NoResponse == [made |-> FALSE, resp |-> NilResponse, err |-> NoError]

Response(resp, err) == [made |-> TRUE, resp |-> resp, err |-> err]

(***************************************************************************)
(* http.Header and the request handed to the transport.                    *)
(***************************************************************************)
ToUpper(c) == IF Ascii[c] >= 97 /\ Ascii[c] <= 122 THEN Chr(Ascii[c] - 32) ELSE c

\* textproto.CanonicalMIMEHeaderKey: a key holding a byte that is no token
\* byte is left as it is.
CanonicalMIMEHeaderKey(key) ==
    IF \E i \in 1..Len(key) : ~(IsLetter(key[i]) \/ IsDigit(key[i])
                                 \/ key[i] \in {"-", "_", ".", "~", "+", "&", "%"})
    THEN key
    ELSE [i \in 1..Len(key) |->
            IF i = 1 \/ key[i - 1] = "-" THEN ToUpper(key[i]) ELSE ToLower(key[i])]

HeaderAdd(h, key, value) == Add(h, CanonicalMIMEHeaderKey(key), value)

HeaderSet(h, key, value) ==
    LET k == CanonicalMIMEHeaderKey(key)
    IN  [j \in DOMAIN h \cup {k} |-> IF j = k THEN <<value>> ELSE h[j]]

\* Header.Get: the first value of the key, "" when it has none.
HeaderGet(h, key) ==
    LET k == CanonicalMIMEHeaderKey(key)
    IN  IF k \in DOMAIN h /\ h[k] # <<>> THEN h[k][1] ELSE <<>>

ContentType == <<"C", "o", "n", "t", "e", "n", "t", "-", "T", "y", "p", "e">>

ApplicationJSON == <<"a", "p", "p", "l", "i", "c", "a", "t", "i", "o", "n", "/", "j", "s", "o", "n">>

NoRequest == [kind |-> "none"]

(***************************************************************************)
(* The inputs the callers and the transport supply.                        *)
(***************************************************************************)
ExampleBase == <<"h", "t", "t", "p", "s", ":", "/", "/", "a", "p", "i", ".", "e", "x", "a", "m", "p", "l", "e", ".", "c", "o", "m">>

XTestURL == <<"h", "t", "t", "p", "s", ":", "/", "/", "x", ".", "t", "e", "s", "t", "/", "a", "?", "x", "=", "1">>

BadPath == <<"%", "z", "z">>

BaseURLs == {<<>>, ExampleBase}

Paths == {XTestURL, BadPath}

QueryArgs == {<<<<"u", "s", "e", "r", "I", "d">>, <<"1">>>>}

HeaderArgs == {<<<<"c", "o", "n", "t", "e", "n", "t", "-", "t", "y", "p", "e">>, <<"t", "e", "x", "t", "/", "p", "l", "a", "i", "n">>>>}

BodyValues == {"nil", "struct{}{}", "chan"}

Contexts == {"background", "nil"}

Transports == {"http.DefaultClient", "custom"}

StatusCodes == {199, 200, 299, 300}

ResponseBodies == {<<>>, <<"{", "}">>}

NoReply == [err |-> TRUE, StatusCode |-> 0, data |-> <<>>, failAt |-> NoFail]

\* What c.client.Do(req) may return: an error, or a response with a status
\* and a body stream that delivers its bytes or fails part-way.
Replies ==
    {NoReply}
    \cup UNION {{[err |-> FALSE, StatusCode |-> code, data |-> d, failAt |-> f] :
                    code \in StatusCodes, f \in {NoFail} \cup 1..(Len(d) - 1)} :
                 d \in ResponseBodies}

\* The maps that n calls of Add with the given arguments can build.
RECURSIVE ValuesUpTo(_, _, _)
ValuesUpTo(args, n, canon) ==
    IF n = 0 THEN {EmptyValues}
    ELSE LET prev == ValuesUpTo(args, n - 1, canon)
         IN  prev \cup {Add(v, IF canon THEN CanonicalMIMEHeaderKey(a[1]) ELSE a[1], a[2]) :
                          v \in prev, a \in args}

(***************************************************************************)
(* Client: the state and the chainable setters.                            *)
(***************************************************************************)
\* The Client struct, as the value of its fields.
c == [baseURL |-> baseURL, params |-> params, headers |-> headers,
      client |-> client, body |-> body]

\* New: empty baseURL, params and headers, http.DefaultClient, no body.
Init ==
    /\ baseURL = <<>>
    /\ params = EmptyValues
    /\ headers = EmptyValues
    /\ client = "http.DefaultClient"
    /\ body = "nil"
    /\ r = NoResponse
    /\ stream = NoStream
    /\ calls = 0
    /\ last = [op |-> "New"]

BaseURL(u) ==
    /\ baseURL' = u
    /\ last' = [op |-> "set"]
    /\ UNCHANGED <<params, headers, client, body, r, stream, calls>>

Query(key, value) ==
    /\ Size(params) < MaxParams
    /\ params' = Add(params, key, value)
    /\ last' = [op |-> "set"]
    /\ UNCHANGED <<baseURL, headers, client, body, r, stream, calls>>

Header(key, value) ==
    /\ Size(headers) < MaxHeaders
    /\ headers' = HeaderAdd(headers, key, value)
    /\ last' = [op |-> "set"]
    /\ UNCHANGED <<baseURL, params, client, body, r, stream, calls>>

HTTPClient(cl) ==
    /\ client' = cl
    /\ last' = [op |-> "set"]
    /\ UNCHANGED <<baseURL, params, headers, body, r, stream, calls>>

Body(b) ==
    /\ body' = b
    /\ last' = [op |-> "set"]
    /\ UNCHANGED <<baseURL, params, headers, client, r, stream, calls>>

\* ResetFields that forgets to clear the headers.
ResetFields_KeepsHeaders(cl) == [cl EXCEPT !.params = EmptyValues, !.body = "nil"]

\* The fields of the client after Reset.
ResetFields(cl) ==
    [cl EXCEPT !.params = EmptyValues, !.headers = EmptyValues, !.body = "nil"]

Reset ==
    /\ baseURL' = ResetFields(c).baseURL
    /\ params' = ResetFields(c).params
    /\ headers' = ResetFields(c).headers
    /\ client' = ResetFields(c).client
    /\ body' = ResetFields(c).body
    /\ last' = [op |-> "Reset", cleared |-> c # ResetFields(c)]
    /\ UNCHANGED <<r, stream, calls>>

(***************************************************************************)
(* Client.do.                                                              *)
(***************************************************************************)
\* c.fullURL(path), and whether http.NewRequestWithContext can parse the
\* URL it returns, tabulated over the base URLs, parameters and paths of
\* the model: each URL is resolved once, not once per step.
Resolved ==
    [x \in BaseURLs \X ValuesUpTo(QueryArgs, MaxParams, FALSE) \X Paths |->
        LET full == fullURL([baseURL |-> x[1], params |-> x[2]], x[3])
        IN  [url |-> full.url, err |-> full.err, parses |-> Parse(full.url).ok]]
    @@ <<>>

\* if c.body != nil && req.Header.Get("Content-Type") == "" { Set(...) }
SetDefaultContentType(cl, req) ==
    IF cl.body # "nil" /\ HeaderGet(req.Header, ContentType) = <<>>
    THEN [req EXCEPT !.Header = HeaderSet(@, ContentType, ApplicationJSON)]
    ELSE req

\* for k, v := range c.headers { for _, vv := range v { req.Header.Add(k, vv) } }
RECURSIVE AddHeaderValues(_, _, _)
AddHeaderValues(h, key, vals) ==
    IF vals = <<>> THEN h ELSE AddHeaderValues(HeaderAdd(h, key, Head(vals)), key, Tail(vals))

RECURSIVE AddHeaders(_, _)
AddHeaders(h, hs) ==
    IF DOMAIN hs = {} THEN h
    ELSE LET k == CHOOSE k \in DOMAIN hs : TRUE
         IN  AddHeaders(AddHeaderValues(h, k, hs[k]), [j \in DOMAIN hs \ {k} |-> hs[j]])

ApplyHeaders(cl, req) == [req EXCEPT !.Header = AddHeaders(@, cl.headers)]

\* resp.StatusCode < http.StatusOK || resp.StatusCode >= http.StatusMultipleChoices
NotOK(code) == code < 200 \/ code >= 300

\* NotOKError that hands on a nil Body when nothing was read.
NotOKError_NilBodyWhenEmpty(method, url, reply, read) ==
    IF read.err # NoError THEN read.err
    ELSE [kind |-> "HTTPError", StatusCode |-> reply.StatusCode,
          Status |-> StatusText(reply.StatusCode), Method |-> method,
          URL |-> url, Body |-> IF read.data.b = <<>> THEN NilBytes ELSE read.data]

\* The error of the branch of do for a status that is not 2xx.
NotOKError(method, url, reply, read) ==
    IF read.err # NoError THEN read.err
    ELSE [kind |-> "HTTPError", StatusCode |-> reply.StatusCode,
          Status |-> StatusText(reply.StatusCode), Method |-> method,
          URL |-> url, Body |-> read.data]

\* The response stream when that branch returns: the deferred Close runs
\* after io.ReadAll, whichever way the read ends.
NotOKStream(s) == Close(Drain(s))

\* BodyAfter with c.body = nil run on every exit (a deferred clear).
BodyAfter_ClearsOnEveryExit(cl, exit) == "nil"

\* The client's body field when do returns through the given exit.
BodyAfter(cl, exit) == IF exit = "success" THEN "nil" ELSE cl.body

\* What do returns and leaves behind: the exit taken, the wrapper, the
\* request handed to the transport (NoRequest when none was), the reply of
\* the transport, the response stream and the client's body afterwards.
Outcome(cl, exit, w, url, sent, reply, s) ==
    [exit |-> exit, r |-> w, url |-> url, sent |-> sent, reply |-> reply, stream |-> s,
     body |-> BodyAfter(cl, exit)]

\* Dispatch that keeps the response in the wrapper of a status that is not
\* 2xx, next to the error.
Dispatch_KeepsResponseOnError(cl, method, url, req, reply) ==
    IF reply.err
    THEN Outcome(cl, "transport", Response(NilResponse, [kind |-> "transport error"]),
                 url, req, NoReply, NoStream)
    ELSE IF NotOK(reply.StatusCode)
    THEN Outcome(cl, IF NotOKError(method, url, reply,
                                   ReadAll(NewStream(reply.data, reply.failAt))).kind
                        = "HTTPError"
                     THEN "status" ELSE "read",
                 Response([kind |-> "response", StatusCode |-> reply.StatusCode,
                           Status |-> StatusText(reply.StatusCode)],
                          NotOKError(method, url, reply,
                                     ReadAll(NewStream(reply.data, reply.failAt)))),
                 url, req, reply, NotOKStream(NewStream(reply.data, reply.failAt)))
    ELSE Outcome(cl, "success",
                 Response([kind |-> "response", StatusCode |-> reply.StatusCode,
                           Status |-> StatusText(reply.StatusCode)], NoError),
                 url, req, reply, NewStream(reply.data, reply.failAt))

\* do from the dispatch on: the request is built, c.client.Do(req) replies.
Dispatch(cl, method, url, req, reply) ==
    IF reply.err
    THEN Outcome(cl, "transport", Response(NilResponse, [kind |-> "transport error"]),
                 url, req, NoReply, NoStream)
    ELSE IF NotOK(reply.StatusCode)
    THEN LET s == NewStream(reply.data, reply.failAt)
             err == NotOKError(method, url, reply, ReadAll(s))
         IN  Outcome(cl, IF err.kind = "HTTPError" THEN "status" ELSE "read",
                     Response(NilResponse, err), url, req, reply, NotOKStream(s))
    ELSE Outcome(cl, "success",
                 Response([kind |-> "response", StatusCode |-> reply.StatusCode,
                           Status |-> StatusText(reply.StatusCode)], NoError),
                 url, req, reply, NewStream(reply.data, reply.failAt))

\* do with the result of c.fullURL(path) in hand.
doURL(cl, ctx, method, full, reply) ==
    IF full.err # NoError
    THEN Outcome(cl, "url", Response(NilResponse, full.err), full.url, NoRequest, NoReply,
                 NoStream)
    ELSE IF cl.body # "nil" /\ ~Marshal(cl.body).ok
    THEN Outcome(cl, "marshal", Response(NilResponse, [kind |-> "json.UnsupportedTypeError"]),
                 full.url, NoRequest, NoReply, NoStream)
    ELSE IF ctx = "nil"
    THEN Outcome(cl, "request", Response(NilResponse, [kind |-> "net/http: nil Context"]),
                 full.url, NoRequest, NoReply, NoStream)
    ELSE IF ~full.parses
    THEN Outcome(cl, "request", Response(NilResponse, [kind |-> "url.Error", URL |-> full.url]),
                 full.url, NoRequest, NoReply, NoStream)
    ELSE Dispatch(cl, method, full.url,
                  ApplyHeaders(cl, SetDefaultContentType(cl,
                      [kind |-> "request", Method |-> method, URL |-> full.url,
                       Header |-> EmptyValues,
                       Body |-> IF cl.body # "nil" THEN Bytes(Marshal(cl.body).b)
                                ELSE NilBytes])),
                  reply)

do(cl, ctx, method, path, reply) ==
    doURL(cl, ctx, method, Resolved[<<cl.baseURL, cl.params, path>>], reply)

\* One execution: the step of the state a call of do makes.
Execute(ctx, method, path, reply) ==
    \E res \in {do(c, ctx, method, path, reply)} :
        /\ body' = res.body
        /\ r' = res.r
        /\ stream' = res.stream
        /\ calls' = 0
        /\ last' = [op |-> "do", method |-> method, path |-> path, exit |-> res.exit,
                    url |-> res.url, sent |-> res.sent, reply |-> res.reply]
        /\ UNCHANGED <<baseURL, params, headers, client>>

Get(ctx, path, reply) == Execute(ctx, "GET", path, reply)

Post(ctx, path, reply) == Execute(ctx, "POST", path, reply)

(***************************************************************************)
(* Response: the accessors, called on the wrapper returned last.           *)
(***************************************************************************)
\* Raw that closes the stream only after a read that succeeded.
Raw_LeaksOnReadError(w, s) ==
    IF w.err # NoError
    THEN [data |-> NilBytes, err |-> w.err, stream |-> s]
    ELSE [data |-> ReadAll(s).data, err |-> ReadAll(s).err,
          stream |-> IF ReadAll(s).err # NoError THEN Drain(s) ELSE Close(Drain(s))]

\* Raw: what it returns and the stream afterwards (the deferred Close runs
\* whichever way io.ReadAll ends).
Raw(w, s) ==
    IF w.err # NoError
    THEN [data |-> NilBytes, err |-> w.err, stream |-> s]
    ELSE [data |-> ReadAll(s).data, err |-> ReadAll(s).err, stream |-> Close(Drain(s))]

\* Body that hands out the stream without looking at the captured error.
ResponseBody_IgnoresError(w, s) == [body |-> "resp.Body", err |-> NoError, stream |-> s]

\* Body: the stream itself, still open.
ResponseBody(w, s) ==
    IF w.err # NoError
    THEN [body |-> "nil", err |-> w.err, stream |-> s]
    ELSE [body |-> "resp.Body", err |-> NoError, stream |-> s]

\* Error.
Error(w) == w.err

\* Into[T].
Into(w, s) ==
    IF w.err # NoError
    THEN [res |-> ZeroT, err |-> w.err, stream |-> s]
    ELSE [res |-> Decode(s).val, err |-> Decode(s).err, stream |-> Close(Drain(s))]

CallRaw ==
    /\ r.made /\ calls < MaxAccess
    /\ \E ret \in {Raw(r, stream)} :
        /\ stream' = ret.stream
        /\ last' = [op |-> "Raw", data |-> ret.data, err |-> ret.err]
    /\ calls' = calls + 1
    /\ UNCHANGED <<baseURL, params, headers, client, body, r>>

CallBody ==
    /\ r.made /\ calls < MaxAccess
    /\ \E ret \in {ResponseBody(r, stream)} :
        /\ stream' = ret.stream
        /\ last' = [op |-> "Body", body |-> ret.body, err |-> ret.err]
    /\ calls' = calls + 1
    /\ UNCHANGED <<baseURL, params, headers, client, body, r>>

CallError ==
    /\ r.made /\ calls < MaxAccess
    /\ last' = [op |-> "Error", err |-> Error(r)]
    /\ calls' = calls + 1
    /\ UNCHANGED <<baseURL, params, headers, client, body, r, stream>>

CallInto ==
    /\ r.made /\ calls < MaxAccess
    /\ \E ret \in {Into(r, stream)} :
        /\ stream' = ret.stream
        /\ last' = [op |-> "Into", res |-> ret.res, err |-> ret.err]
    /\ calls' = calls + 1
    /\ UNCHANGED <<baseURL, params, headers, client, body, r>>

(***************************************************************************)
(* The client: its setters and its executions.                             *)
(***************************************************************************)
Next ==
    \/ \E u \in BaseURLs : BaseURL(u)
    \/ \E kv \in QueryArgs : Query(kv[1], kv[2])
    \/ \E kv \in HeaderArgs : Header(kv[1], kv[2])
    \/ \E cl \in Transports : HTTPClient(cl)
    \/ \E b \in BodyValues : Body(b)
    \/ Reset
    \/ \E ctx \in Contexts, path \in Paths, reply \in Replies : Get(ctx, path, reply)
    \/ \E ctx \in Contexts, path \in Paths, reply \in Replies : Post(ctx, path, reply)

Spec == Init /\ [][Next]_vars

(***************************************************************************)
(* The wrapper: executions and the accessors of what they return.          *)
(***************************************************************************)
NextResponse ==
    \/ \E b \in BodyValues : Body(b)
    \/ \E ctx \in Contexts, path \in Paths, reply \in Replies : Get(ctx, path, reply)
    \/ \E ctx \in Contexts, path \in Paths, reply \in Replies : Post(ctx, path, reply)
    \/ CallRaw
    \/ CallBody
    \/ CallError
    \/ CallInto

SpecResponse == Init /\ [][NextResponse]_vars

(***************************************************************************)
(* The URL: c.fullURL(path) over base URLs, parameters and paths.          *)
(***************************************************************************)
ExampleBaseV1 == <<"h", "t", "t", "p", "s", ":", "/", "/", "a", "p", "i", ".", "e", "x", "a", "m", "p", "l", "e", ".", "c", "o", "m", "/", "v", "1", "/">>

ZTestURL == <<"h", "t", "t", "p", "s", ":", "/", "/", "x", ".", "t", "e", "s", "t", "/", "a", "?", "z", "=", "1">>

MalformedQueryURL == <<"/", "p", "?", "x", "=", "%", "z", "z", "&", "k", "=", "1">>

Posts == <<"/", "p", "o", "s", "t", "s">>

PostsWithQuery == <<"/", "p", "o", "s", "t", "s", "?", "x", "=", "1">>

URLBases == {<<>>, ExampleBase, ExampleBaseV1}

URLPaths == {XTestURL, ZTestURL, MalformedQueryURL, Posts, PostsWithQuery, BadPath}

URLQueryArgs ==
    {<<<<"y">>, <<"2">>>>, <<<<"a">>, <<"2">>>>, <<<<"x">>, <<"2">>>>,
     <<<<"u", "s", "e", "r", "I", "d">>, <<"1">>>>}

\* c.fullURL(path), as do calls it first: the client is left as it is.
ResolveURL(path) ==
    /\ \E full \in {fullURL(c, path)} :
        last' = [op |-> "fullURL", path |-> path, url |-> full.url, err |-> full.err]
    /\ UNCHANGED <<baseURL, params, headers, client, body, r, stream, calls>>

NextURL ==
    \/ \E u \in URLBases : BaseURL(u)
    \/ \E kv \in URLQueryArgs : Query(kv[1], kv[2])
    \/ \E path \in URLPaths : ResolveURL(path)

SpecURL == Init /\ [][NextURL]_vars

(***************************************************************************)
(* Properties of the URL (SpecURL).                                        *)
(***************************************************************************)
\* The values the pairs give to a key, in the order of the pairs.
RECURSIVE ValuesOf(_, _)
ValuesOf(pairs, key) ==
    IF pairs = <<>> THEN <<>>
    ELSE (IF Head(pairs).k = key THEN <<Head(pairs).v>> ELSE <<>>)
         \o ValuesOf(Tail(pairs), key)

\* The values the client has accumulated for a key.
ParamsOf(ps, key) == IF key \in DOMAIN ps THEN ps[key] ELSE <<>>

KeysOf(pairs) == {pairs[i].k : i \in DOMAIN pairs}

\* The query string of a URL: what follows its first '?'.
QueryString(url) == Cut(url, "?").after

\* s holds sub as a substring.
Occurs(sub, s) ==
    \E i \in 1..(Len(s) - Len(sub) + 1) : SubSeq(s, i, i + Len(sub) - 1) = sub

\* The step resolved a URL without a base URL, without an error.
ResolvedWithoutBase == last.op = "fullURL" /\ baseURL = <<>> /\ last.err = NoError

\* The step resolved a URL against a base URL, without an error.
ResolvedWithBase == last.op = "fullURL" /\ baseURL # <<>> /\ last.err = NoError

\* The pairs out hold, for every key, the values of the path's pairs
\* followed by the accumulated values, and nothing else.
MergesPairs(out, own) ==
    \A key \in KeysOf(out) \cup KeysOf(own) \cup DOMAIN params :
        ValuesOf(out, key) = ValuesOf(own, key) \o ParamsOf(params, key)

SortedByKey(out) == \A i \in 1..(Len(out) - 1) : ~StrLess(out[i + 1].k, out[i].k)

\* C5 (as the claim states it): without a base URL the query string of the
\* resolved URL is the path's own parameters, in their order, followed by
\* the accumulated parameters, none lost.
C5_PathParamsThenAccumulated ==
    ResolvedWithoutBase =>
        /\ Len(QueryPairs(QueryString(last.url)))
             = Len(QueryPairs(QueryString(last.path))) + Size(params)
        /\ SubSeq(QueryPairs(QueryString(last.url)), 1,
                  Len(QueryPairs(QueryString(last.path))))
             = QueryPairs(QueryString(last.path))
        /\ MergesPairs(QueryPairs(QueryString(last.url)),
                       QueryPairs(QueryString(last.path)))

\* C5 (amended): without a base URL the resolved URL is the path parsed as
\* a standalone URL whose query string holds the well-formed parameters of
\* the path and the accumulated parameters, sorted by key; within one key
\* the values of the path come before the accumulated values, and no such
\* parameter is lost or added.
C5_MergedQuerySortedByKey ==
    ResolvedWithoutBase =>
        /\ Cut(last.url, "?").before
             = String([Parse(last.path).u EXCEPT !.RawQuery = <<>>, !.ForceQuery = FALSE])
        /\ SortedByKey(QueryPairs(QueryString(last.url)))
        /\ MergesPairs(QueryPairs(QueryString(last.url)),
                       QueryPairs(QueryString(last.path)))

\* C5 witness: the path "https://x.test/a?z=1" resolved with a=2
\* accumulated: the accumulated parameter comes first.
C5_Witness ==
    /\ ResolvedWithoutBase
    /\ last.path = ZTestURL
    /\ params = (<<"a">> :> <<<<"2">>>>)
    /\ QueryString(last.url) = <<"a", "=", "2", "&", "z", "=", "1">>

\* C6 (as the claim states it): with a base URL the resolved URL is the
\* base and the path joined by one slash, the query string written in the
\* path is discarded and appears nowhere in the URL, and the query string
\* of the URL is the accumulated parameters.
C6_PathQueryDiscarded ==
    ResolvedWithBase =>
        /\ Cut(last.url, "?").before
             = TrimSuffix(baseURL, <<"/">>) \o <<"/">>
               \o escape(TrimPrefix(Cut(last.path, "?").before, <<"/">>), "path")
        /\ QueryString(last.url) = Encode(params)
        /\ QueryString(last.path) # <<>> => ~Occurs(QueryString(last.path), last.url)

(***************************************************************************)
(* Properties of the client (Spec).                                        *)
(***************************************************************************)
Executed == last.op = "do"

\* The execution handed a request to the transport.
Dispatched == Executed /\ last.sent # NoRequest

\* The transport returned a response (and no error).
Replied == Dispatched /\ ~last.reply.err

\* The transport returned a response with a status in [200, 300).
Succeeded == Replied /\ last.reply.StatusCode >= 200 /\ last.reply.StatusCode < 300

\* The request body that do builds from a pending body.
RequestBody(b) == IF b = "nil" THEN NilBytes ELSE Bytes(Marshal(b).b)

\* Every value the client holds for a header is among the values the
\* request carries for it.
CarriesHeaders(req) ==
    \A key \in DOMAIN headers :
        /\ key \in DOMAIN req.Header
        /\ \A i \in DOMAIN headers[key] :
              \E j \in DOMAIN req.Header[key] : req.Header[key][j] = headers[key][i]

\* Every parameter the client holds is in the query string of the URL.
CarriesParams(url) ==
    \A key \in DOMAIN params :
        \A i \in DOMAIN params[key] :
            \E j \in DOMAIN QueryPairs(QueryString(url)) :
                QueryPairs(QueryString(url))[j] = [k |-> key, v |-> params[key][i]]

\* C1: an execution changes no field of the client but the pending body,
\* which it sets to nil exactly when it succeeds; after a failure every
\* field is as before, so the pending body is still the one that was sent,
\* and every request carries the accumulated parameters and headers.
C1_ExecutionChangesOnlyBody ==
    /\ [][(last'.op = "do") =>
            /\ baseURL' = baseURL /\ params' = params /\ headers' = headers
            /\ client' = client
            /\ body' = (IF Succeeded' THEN "nil" ELSE body)]_vars
    /\ []((Dispatched /\ ~Succeeded) => last.sent.Body = RequestBody(body))
    /\ [](Dispatched => CarriesHeaders(last.sent) /\ CarriesParams(last.sent.URL))

\* C1 witness: the transport failed with a body pending and parameters and
\* headers accumulated; the body is still pending.
C1_Witness ==
    /\ Dispatched /\ last.exit = "transport"
    /\ body = "struct{}{}" /\ last.sent.Body = Bytes(<<"{", "}">>)
    /\ params # EmptyValues /\ headers # EmptyValues

\* C2: Reset leaves params, headers and body empty and baseURL and client
\* as they were; the execution that follows it dispatches a request with no
\* header, no body and none of the parameters added before; a second Reset
\* changes nothing.
C2_ResetClearsParamsHeadersBody ==
    /\ [][(last'.op = "Reset") =>
            /\ params' = EmptyValues /\ headers' = EmptyValues /\ body' = "nil"
            /\ baseURL' = baseURL /\ client' = client]_vars
    /\ [][(last.op = "Reset" /\ Dispatched') =>
            /\ last'.sent.Header = EmptyValues
            /\ last'.sent.Body = NilBytes
            /\ \A kv \in QueryArgs : ~Occurs(kv[1], last'.sent.URL)]_vars
    /\ [](ResetFields(ResetFields(c)) = ResetFields(c))

\* C2 witness: Reset has cleared something and has kept a base URL and a
\* transport that are not the defaults.
C2_Witness ==
    /\ last.op = "Reset" /\ last.cleared
    /\ baseURL = ExampleBase /\ client = "custom"
    /\ params = EmptyValues /\ headers = EmptyValues /\ body = "nil"

\* C3 (as the claim states it): when the transport returns a response, a
\* status in [200, 300) gives a wrapper with no error that holds the
\* response, and any other status gives a wrapper whose error matches
\* ErrNotOK, whatever happens while the body is read.
C3_NotOKAlwaysMatchesErrNotOK ==
    Replied =>
        IF Succeeded THEN r.err = NoError /\ r.resp # NilResponse
        ELSE r.err # NoError /\ ErrorsIs(r.err, ErrNotOK)

\* The values of Content-Type the request carries.
ContentTypeOf(req) ==
    IF ContentType \in DOMAIN req.Header THEN req.Header[ContentType] ELSE <<>>

\* C4 (as the claim states it): a dispatched request carries the default
\* Content-Type: application/json exactly when it has a body and the caller
\* has added no Content-Type header; otherwise its Content-Type values are
\* the caller's alone.
C4_DefaultContentTypeUnlessOverridden ==
    Dispatched =>
        ContentTypeOf(last.sent)
          = (IF ContentType \in DOMAIN headers THEN headers[ContentType]
             ELSE IF last.sent.Body # NilBytes THEN <<ApplicationJSON>>
             ELSE <<>>)

\* C8: a status outside [200, 300) whose body is read to the end gives an
\* HTTPError with the status code and status of the response, the method of
\* the execution, the URL that was dispatched and the whole body, not nil
\* even when empty; the stream is closed when the wrapper is returned.
C8_HTTPErrorCarriesResponse ==
    (Replied /\ ~Succeeded /\ last.reply.failAt = NoFail) =>
        /\ r.err = [kind |-> "HTTPError",
                    StatusCode |-> last.reply.StatusCode,
                    Status |-> StatusText(last.reply.StatusCode),
                    Method |-> last.method,
                    URL |-> last.sent.URL,
                    Body |-> [isNil |-> FALSE, b |-> last.reply.data]]
        /\ last.sent.Method = last.method
        /\ stream.opened /\ stream.closes = 1

\* C8 witness: Post got the status 300 with an empty body.
C8_Witness ==
    /\ Replied /\ last.method = "POST" /\ last.reply.StatusCode = 300
    /\ last.reply.data = <<>>
    /\ r.err.kind = "HTTPError" /\ r.err.Body = Bytes(<<>>)

(***************************************************************************)
(* Properties of the wrapper (SpecResponse).                               *)
(***************************************************************************)
Accessors == {"Raw", "Body", "Error", "Into"}

\* The wrapper holds a captured error.
HoldsError == r.made /\ r.err # NoError

\* C7: the wrapper an execution returns holds the response or the error,
\* never both and never neither, on every exit; no accessor changes it.
C7_ResponseOrErrorNeverBoth ==
    /\ [](r.made => ((r.resp = NilResponse) # (r.err = NoError)))
    /\ [][(last'.op \in Accessors) => r' = r]_vars

\* C7 witness: an accessor has been called on the wrapper of an execution
\* that failed reading the body of a status that is not 2xx.
C7_Witness ==
    /\ last.op \in Accessors /\ calls = 1
    /\ r.made /\ r.resp = NilResponse /\ r.err = [kind |-> "read error"]

\* C9: on a wrapper that holds an error every accessor returns that error,
\* any number of times, and leaves the stream alone; Raw returns no bytes,
\* Body no stream and Into the zero value. Every execution returns a
\* wrapper.
C9_AccessorsReturnCapturedError ==
    /\ []((HoldsError /\ last.op \in Accessors) => last.err = r.err)
    /\ []((HoldsError /\ last.op = "Raw") => last.data = NilBytes)
    /\ []((HoldsError /\ last.op = "Body") => last.body = "nil")
    /\ []((HoldsError /\ last.op = "Into") => last.res = ZeroT)
    /\ [][(HoldsError /\ last'.op \in Accessors) => stream' = stream]_vars
    /\ [](Executed => r.made)

\* C9 witness: a second accessor, Body, has returned the error of a
\* transport that failed.
C9_Witness ==
    /\ HoldsError /\ r.err = [kind |-> "transport error"]
    /\ last.op = "Body" /\ calls = 2 /\ last.err = r.err

\* C10: the stream of a response is closed when do returns through the
\* branch for a status that is not 2xx, and when Raw or Into returns on a
\* wrapper that holds the response, however the read ends; Body leaves the
\* stream open; with at most one accessor called on a wrapper no stream is
\* closed twice.
C10_StreamClosedOnEveryExit ==
    /\ []((Replied /\ ~Succeeded) => stream.opened /\ stream.closes = 1)
    /\ []((r.made /\ ~HoldsError /\ last.op \in {"Raw", "Into"}) =>
             stream.opened /\ stream.closes >= 1)
    /\ [][(last'.op = "Body" /\ calls' = calls + 1) => stream' = stream]_vars
    /\ []((r.made /\ ~HoldsError /\ last.op = "Body" /\ calls = 1) =>
             stream.opened /\ stream.closes = 0)
    /\ [](calls <= 1 => stream.closes <= 1)

\* C10 witness: Raw has returned the error of a read that failed on the
\* body of a response with the status 200, and the stream is closed.
C10_Witness ==
    /\ r.made /\ ~HoldsError /\ last.op = "Raw" /\ calls = 1
    /\ last.err = [kind |-> "read error"]
    /\ stream.closes = 1

====
